---------------------------- MODULE Spec2Model ----------------------------
(***************************************************************************)
(* State-machine model of obsidian-to-audiobook:                           *)
(*   3_md_to_mp3.py  split_text_into_chunks, split_markdown_by_headers,    *)
(*                   clean_text_for_speech, main (section / chunk loop)    *)
(*   6_create_m4b.py clean_title, create_m4b (chapter cursor),             *)
(*                   generate_ffmpeg_metadata                              *)
(*   2_write_book_using_ai.py main (resume by file name)                   *)
(* Python strings are modelled as sequences of one-character strings.      *)
(***************************************************************************)
EXTENDS Integers, Sequences, FiniteSets, TLC

VARIABLES
    mode,           \* which program of the repository is running
    pc,             \* position of that program
    text,           \* split_text_into_chunks / split_markdown_by_headers: text
    max_chars,      \* split_text_into_chunks: max_chars
    paragraphs,     \* split_text_into_chunks: paragraphs (line 96)
    para_idx,       \* split_text_into_chunks: number of paragraphs consumed
    current_chunk,  \* split_text_into_chunks: current_chunk
    chunks,         \* split_text_into_chunks: chunks
    lines,          \* split_markdown_by_headers: lines (line 44)
    line_idx,       \* split_markdown_by_headers: number of lines consumed
    current_title,  \* split_markdown_by_headers: current_title
    current_content,\* split_markdown_by_headers: current_content
    sections,       \* split_markdown_by_headers: sections
    input_files,    \* create_m4b: input_files (file names)
    file_idx,       \* create_m4b: number of input files consumed
    chapters,       \* create_m4b: chapters
    current_time,   \* create_m4b: current_time
    probed,         \* create_m4b: what get_audio_duration returned, per file
    concat_list,    \* create_m4b: the text written to concat_list.txt
    metadata_content, \* create_m4b: metadata_content (line 122)
    tmp_files,      \* create_m4b: which temporary files exist on disk
    probe_errors,   \* create_m4b: files get_audio_duration printed an error for
    m4b_result,     \* create_m4b: how the call ended
    provider,       \* 3_md_to_mp3 main: args.provider
    content,        \* 3_md_to_mp3 main: content of the input markdown file
    fs,             \* 3_md_to_mp3 main: names of the files in the output folder
    section_idx,    \* 3_md_to_mp3 main: section_idx
    idx,            \* 3_md_to_mp3 main: idx, the chunk being converted
    audio_files,    \* 3_md_to_mp3 main: audio_files
    synth_log,      \* 3_md_to_mp3 main: the text_to_speech_* calls made so far
    merged,         \* 3_md_to_mp3 main: the merge_audio_files calls made so far
    pydub,          \* 3_md_to_mp3 main: whether pydub can be imported
    credential,     \* 3_md_to_mp3 main: the provider's environment variable is set
    voice,          \* 3_md_to_mp3 main: args.voice is given
    input_exists,   \* 3_md_to_mp3 main: input_path.exists()
    io_log,         \* 3_md_to_mp3 main: file operations of this run, in order
    in_flight,      \* 3_md_to_mp3 main: text_to_speech_* calls that have not returned
    audio_ms,       \* 3_md_to_mp3 main: length in ms of the audio in each of audio_files
    run,            \* 3_md_to_mp3: which invocation of main() on the document this is
    prev,           \* 3_md_to_mp3: how the invocation before this one went
    filtered_rows,  \* 2_write_book_using_ai main: filtered_rows
    row_idx,        \* 2_write_book_using_ai main: number of rows consumed
    output_text,    \* 2_write_book_using_ai: the text of the output file
    already_processed, \* 2_write_book_using_ai main: already_processed
    ai_calls,       \* 2_write_book_using_ai: the call_openrouter_api calls so far
    book_run        \* 2_write_book_using_ai: which invocation of main() this is

chunkLocals == <<text, max_chars, paragraphs, para_idx, current_chunk>>
chunkVars == <<chunkLocals, chunks>>
splitLocals == <<lines, line_idx, current_title, current_content>>
splitVars == <<splitLocals, sections>>

m4bVars == <<input_files, file_idx, chapters, current_time, probed, concat_list,
             metadata_content, tmp_files, probe_errors, m4b_result>>

mainVars == <<provider, content, fs, section_idx, idx, audio_files, synth_log, merged,
              pydub, credential, voice, input_exists, io_log, in_flight, audio_ms, run,
              prev>>

bookVars == <<filtered_rows, row_idx, output_text, already_processed, ai_calls, book_run>>

vars == <<mode, pc, chunkVars, splitVars, m4bVars, mainVars, bookVars>>

-----------------------------------------------------------------------------
(* Bounds of the model *)

\* longest text handed to split_text_into_chunks
MaxTextLen == 6
\* largest max_chars handed to split_text_into_chunks
MaxBudget == 3
\* longest markdown text handed to split_markdown_by_headers
MaxMdLen == 6
\* most input files handed to create_m4b
MaxFiles == 3
\* most lines of the markdown file read by main() of 3_md_to_mp3
MaxDocLines == 3
\* most invocations of main() of 3_md_to_mp3 on the same document
MaxRuns == 2
\* most filtered CSV rows of one invocation of 2_write_book_using_ai
MaxRows == 2
\* most invocations of main() of 2_write_book_using_ai on the same output file
MaxBookRuns == 2
\* max_chunk_size of the providers (5000, 4000 and 4096 characters in the
\* source), scaled down to the length of the bounded documents
ElevenLabsChunkSize == 5
GoogleChunkSize == 4
OpenAIChunkSize == 4

-----------------------------------------------------------------------------
(* The variables of a program that is not the one running *)

ChunksIdle ==
    /\ max_chars = 0 /\ paragraphs = <<>> /\ para_idx = 0
    /\ current_chunk = <<>> /\ chunks = <<>>

SplitIdle ==
    /\ lines = <<>> /\ line_idx = 0 /\ current_title = <<>>
    /\ current_content = <<>> /\ sections = <<>>

M4bIdle ==
    /\ input_files = <<>> /\ file_idx = 0 /\ chapters = <<>> /\ current_time = 0
    /\ probed = <<>> /\ concat_list = <<>> /\ tmp_files = {} /\ m4b_result = "none"
    /\ probe_errors = <<>> /\ metadata_content = <<>>

MainIdle ==
    /\ provider = "none" /\ content = <<>> /\ fs = {} /\ section_idx = 0 /\ idx = 0
    /\ audio_files = <<>> /\ synth_log = <<>> /\ merged = <<>> /\ pydub = FALSE
    /\ credential = FALSE /\ voice = FALSE /\ input_exists = FALSE /\ io_log = <<>>
    /\ in_flight = {} /\ audio_ms = <<>> /\ run = 0 /\ prev = <<>>

BookIdle ==
    /\ filtered_rows = <<>> /\ row_idx = 0 /\ output_text = <<>>
    /\ already_processed = {} /\ ai_calls = <<>> /\ book_run = 0

-----------------------------------------------------------------------------
(* Python str primitives *)

NL == "\n"

\* characters removed by str.strip() with no argument
Whitespace == {" ", NL, "\t"}

Range(s) == {s[i] : i \in DOMAIN s}

\* all sequences over S of length at most n
RECURSIVE SeqsUpTo(_, _)
SeqsUpTo(S, n) ==
    IF n = 0 THEN {<<>>}
    ELSE LET shorter == SeqsUpTo(S, n - 1)
         IN  shorter \cup {Append(s, c) : s \in {t \in shorter : Len(t) = n - 1}, c \in S}

\* s[i..] begins with sub
MatchAt(s, sub, i) ==
    /\ i + Len(sub) - 1 <= Len(s)
    /\ \A k \in 1..Len(sub) : s[i + k - 1] = sub[k]

\* str.startswith
StartsWith(s, sub) == MatchAt(s, sub, 1)

\* str.endswith
EndsWith(s, sub) == Len(sub) <= Len(s) /\ MatchAt(s, sub, Len(s) - Len(sub) + 1)

\* str.lstrip(chars)
RECURSIVE LStripSet(_, _)
LStripSet(s, cs) ==
    IF s /= <<>> /\ Head(s) \in cs THEN LStripSet(Tail(s), cs) ELSE s

\* str.rstrip(chars)
RECURSIVE RStripSet(_, _)
RStripSet(s, cs) ==
    IF s /= <<>> /\ s[Len(s)] \in cs THEN RStripSet(SubSeq(s, 1, Len(s) - 1), cs) ELSE s

\* str.strip()
Strip(s) == RStripSet(LStripSet(s, Whitespace), Whitespace)

\* str.split(sep): leftmost non-overlapping occurrences of sep, empty pieces kept
RECURSIVE SplitFrom(_, _, _, _)
SplitFrom(s, sep, i, piece) ==
    IF i > Len(s) THEN <<piece>>
    ELSE IF MatchAt(s, sep, i)
         THEN <<piece>> \o SplitFrom(s, sep, i + Len(sep), <<>>)
         ELSE SplitFrom(s, sep, i + 1, Append(piece, s[i]))

Split(s, sep) == SplitFrom(s, sep, 1, <<>>)

\* sep.join(parts)
RECURSIVE Join(_, _)
Join(parts, sep) ==
    IF parts = <<>> THEN <<>>
    ELSE IF Len(parts) = 1 THEN parts[1]
    ELSE parts[1] \o sep \o Join(Tail(parts), sep)

\* str.replace(old, new): leftmost non-overlapping occurrences
RECURSIVE ReplaceFrom(_, _, _, _)
ReplaceFrom(s, old, new, i) ==
    IF i > Len(s) THEN <<>>
    ELSE IF MatchAt(s, old, i)
         THEN new \o ReplaceFrom(s, old, new, i + Len(old))
         ELSE <<s[i]>> \o ReplaceFrom(s, old, new, i + 1)

Replace(s, old, new) == ReplaceFrom(s, old, new, 1)

\* str.split('\n') from position i on: the pieces between the newlines
RECURSIVE LinesFromPos(_, _)
LinesFromPos(t, i) ==
    IF \A j \in i..Len(t) : t[j] /= NL
    THEN << SubSeq(t, i, Len(t)) >>
    ELSE \* the first newline at or after i
         LET e == CHOOSE j \in i..Len(t) : t[j] = NL /\ \A k \in i..(j - 1) : t[k] /= NL
         IN  << SubSeq(t, i, e - 1) >> \o LinesFromPos(t, e + 1)

\* str.split('\n'), also the lines a text file is read and written in
LinesOf(t) == LinesFromPos(t, 1)

-----------------------------------------------------------------------------
(* 3_md_to_mp3.py: split_text_into_chunks *)

\* the characters of the bounded texts handed to split_text_into_chunks
ChunkAlphabet == {"a", ".", " ", NL, "|"}

\* line 111: the sentence-boundary split of an oversized current_chunk
sentences(chunk) ==
    Split(Replace(Replace(Replace(chunk, <<".", " ">>, <<".", "|">>),
                          <<"!", " ">>, <<"!", "|">>),
                  <<"?", " ">>, <<"?", "|">>),
          <<"|">>)

\* lines 115-119: one iteration of the sentence loop; st = [chunks, temp_chunk]
sentence_step(st, sentence, M) ==
    IF st.temp_chunk /= <<>> /\ Len(st.temp_chunk) + Len(sentence) > M
    THEN [chunks |-> Append(st.chunks, Strip(st.temp_chunk)), temp_chunk |-> sentence]
    ELSE [chunks |-> st.chunks, temp_chunk |-> st.temp_chunk \o sentence]

\* lines 112-121: the sentence loop over all sentences
RECURSIVE sentence_loop(_, _, _)
sentence_loop(st, sents, M) ==
    IF sents = <<>> THEN st
    ELSE sentence_loop(sentence_step(st, Head(sents), M), Tail(sents), M)

\* accumulate_paragraph without the budget test of line 100: the paragraph is
\* always appended to current_chunk
accumulate_paragraph_no_seal(st, paragraph, M) ==
    IF st.current_chunk /= <<>>
    THEN [chunks |-> st.chunks,
          current_chunk |-> st.current_chunk \o <<NL, NL>> \o paragraph]
    ELSE [chunks |-> st.chunks, current_chunk |-> paragraph]

\* lines 100-107: seal-or-append of one paragraph; st = [chunks, current_chunk]
accumulate_paragraph(st, paragraph, M) ==
    IF st.current_chunk /= <<>> /\ Len(st.current_chunk) + Len(paragraph) + 2 > M
    THEN [chunks |-> Append(st.chunks, Strip(st.current_chunk)),
          current_chunk |-> paragraph]
    ELSE IF st.current_chunk /= <<>>
         THEN [chunks |-> st.chunks,
               current_chunk |-> st.current_chunk \o <<NL, NL>> \o paragraph]
         ELSE [chunks |-> st.chunks, current_chunk |-> paragraph]

\* lines 110-121: re-split of a current_chunk longer than max_chars
resplit_oversized(st, M) ==
    IF Len(st.current_chunk) > M
    THEN LET r == sentence_loop([chunks |-> st.chunks, temp_chunk |-> <<>>],
                                sentences(st.current_chunk), M)
         IN  [chunks |-> r.chunks, current_chunk |-> r.temp_chunk]
    ELSE st

\* lines 98-121: one iteration of the paragraph loop
paragraph_step(st, paragraph, M) ==
    resplit_oversized(accumulate_paragraph(st, paragraph, M), M)

\* lines 123-126: the last chunk is kept only when not blank
final_chunks(st) ==
    IF Strip(st.current_chunk) /= <<>>
    THEN Append(st.chunks, Strip(st.current_chunk))
    ELSE st.chunks

RECURSIVE paragraph_loop(_, _, _)
paragraph_loop(st, paras, M) ==
    IF paras = <<>> THEN st
    ELSE paragraph_loop(paragraph_step(st, Head(paras), M), Tail(paras), M)

\* lines 90-126: the whole function
split_text_into_chunks(t, M) ==
    final_chunks(paragraph_loop([chunks |-> <<>>, current_chunk |-> <<>>],
                                Split(t, <<NL, NL>>), M))

\* a call split_text_into_chunks(text, max_chars); lines 92-96 have run
InitChunks ==
    /\ mode = "chunks"
    /\ pc = "paragraphs"
    /\ text \in SeqsUpTo(ChunkAlphabet, MaxTextLen)
    /\ max_chars \in 1..MaxBudget
    /\ paragraphs = Split(text, <<NL, NL>>)
    /\ para_idx = 0
    /\ current_chunk = <<>>
    /\ chunks = <<>>
    /\ SplitIdle /\ M4bIdle /\ MainIdle /\ BookIdle

\* lines 98-121: the loop body for the next paragraph
ChunkParagraph ==
    /\ mode = "chunks" /\ pc = "paragraphs"
    /\ para_idx < Len(paragraphs)
    /\ LET st == paragraph_step([chunks |-> chunks, current_chunk |-> current_chunk],
                                paragraphs[para_idx + 1], max_chars)
       IN  /\ chunks' = st.chunks
           /\ current_chunk' = st.current_chunk
    /\ para_idx' = para_idx + 1
    /\ UNCHANGED <<mode, pc, text, max_chars, paragraphs, splitVars, m4bVars, mainVars, bookVars>>

\* lines 123-126: after the loop
ChunkReturn ==
    /\ mode = "chunks" /\ pc = "paragraphs"
    /\ para_idx = Len(paragraphs)
    /\ chunks' = final_chunks([chunks |-> chunks, current_chunk |-> current_chunk])
    /\ pc' = "returned"
    /\ UNCHANGED <<mode, text, max_chars, paragraphs, para_idx, current_chunk, splitVars,
                   m4bVars, mainVars, bookVars>>

NextChunks == ChunkParagraph \/ ChunkReturn

SpecChunks == InitChunks /\ [][NextChunks]_vars

\* values of max_chars that are not a positive number of characters
NonPositiveBudgets == {-1, 0}

\* a call split_text_into_chunks(text, max_chars) with max_chars <= 0; the
\* function has no test of max_chars, lines 92-96 have run
InitChunksNonPositive ==
    /\ mode = "chunks"
    /\ pc = "paragraphs"
    /\ text \in SeqsUpTo(ChunkAlphabet, MaxTextLen)
    /\ max_chars \in NonPositiveBudgets
    /\ paragraphs = Split(text, <<NL, NL>>)
    /\ para_idx = 0
    /\ current_chunk = <<>>
    /\ chunks = <<>>
    /\ SplitIdle /\ M4bIdle /\ MainIdle /\ BookIdle

SpecChunksNonPositive == InitChunksNonPositive /\ [][NextChunks]_vars

-----------------------------------------------------------------------------
(* Claims about split_text_into_chunks *)

\* the characters of s that are not whitespace, in order
NonWhitespace(s) == SelectSeq(s, LAMBDA c : c \notin Whitespace)

\* c is one piece of the sentence-boundary split of a paragraph of the text,
\* trimmed, and that piece alone is longer than max_chars
OversizedSentence(c) ==
    \E p \in Range(Split(text, <<NL, NL>>)) :
        \E s \in Range(sentences(p)) : Len(s) > max_chars /\ c = Strip(s)

\* C1: every chunk is at most max_chars long, except a chunk that is exactly
\* one sentence which by itself is longer than max_chars.
C1_ChunksWithinBudget ==
    mode = "chunks" =>
        \A i \in DOMAIN chunks :
            Len(chunks[i]) <= max_chars \/ OversizedSentence(chunks[i])

\* C1 witness: a returned result holding a chunk within the budget and an
\* oversized single-sentence chunk.
C1_Witness ==
    /\ mode = "chunks" /\ pc = "returned"
    /\ \E i \in DOMAIN chunks : Len(chunks[i]) > max_chars
    /\ \E i \in DOMAIN chunks : Len(chunks[i]) <= max_chars /\ chunks[i] /= <<>>

\* C2: the returned chunks, concatenated in order, reproduce the text: every
\* character the function may strip (paragraph delimiter, space after a
\* sentence end, whitespace trimmed per chunk) is whitespace, so the
\* non-whitespace characters of the chunks are those of the text, in order.
C2_RoundTrip ==
    (mode = "chunks" /\ pc = "returned") =>
        NonWhitespace(Join(chunks, <<>>)) = NonWhitespace(text)

\* C8: no chunk is empty or whitespace-only.
C8_NoBlankChunk ==
    mode = "chunks" => \A i \in DOMAIN chunks : Strip(chunks[i]) /= <<>>

\* C11: a call with max_chars <= 0 is a configuration error: the function
\* signals an error instead of returning, and yields no chunk, for every text.
C11_NonPositiveBudgetIsError ==
    (mode = "chunks" /\ max_chars <= 0) => (pc /= "returned" /\ chunks = <<>>)

\* the positions of p that hold '.', '!' or '?' and are followed by a space
SentenceEnds(p) ==
    {i \in 1..(Len(p) - 1) : p[i] \in {".", "!", "?"} /\ p[i + 1] = " "}

\* p[start..] cut after each sentence end, the punctuation character kept
\* and the space after it dropped
RECURSIVE SentencesFrom(_, _)
SentencesFrom(p, start) ==
    LET ends == {i \in SentenceEnds(p) : i >= start}
    IN  IF ends = {} THEN <<SubSeq(p, start, Len(p))>>
        ELSE LET first == CHOOSE i \in ends : \A j \in ends : i <= j
             IN  <<SubSeq(p, start, first)>> \o SentencesFrom(p, first + 2)

\* C19: a paragraph longer than max_chars is split after each '. ', '! ' and
\* '? ', the punctuation kept with the sentence before it, and nowhere else;
\* a sentence that is itself longer than max_chars is returned whole (trimmed
\* of surrounding whitespace) as a chunk of its own, and the function returns.
C19_OversizedSentenceWhole ==
    (mode = "chunks" /\ pc = "returned") =>
        \A i \in DOMAIN paragraphs :
            Len(paragraphs[i]) > max_chars =>
                /\ sentences(paragraphs[i]) = SentencesFrom(paragraphs[i], 1)
                /\ \A s \in Range(SentencesFrom(paragraphs[i], 1)) :
                      (Len(s) > max_chars /\ Strip(s) /= <<>>) =>
                          \E k \in DOMAIN chunks : chunks[k] = Strip(s)

\* the paragraph loop is at an empty paragraph that lies between two
\* paragraph delimiters
AtEmptyParagraph ==
    /\ mode = "chunks" /\ pc = "paragraphs"
    /\ 0 < para_idx /\ para_idx + 1 < Len(paragraphs)
    /\ paragraphs[para_idx + 1] = <<>>

\* C20: consecutive paragraph delimiters yield no empty paragraph entry, and
\* so an empty paragraph adds nothing to the text or length of a chunk: the
\* step of the paragraph loop for it leaves current_chunk and chunks as they are.
C20_EmptyParagraphsCollapsed ==
    /\ [](mode = "chunks" =>
             \A i \in 2..(Len(paragraphs) - 1) : paragraphs[i] /= <<>>)
    /\ [][AtEmptyParagraph =>
             (current_chunk' = current_chunk /\ chunks' = chunks)]_vars

-----------------------------------------------------------------------------
(* 3_md_to_mp3.py: split_markdown_by_headers *)

\* the characters of the bounded texts handed to split_markdown_by_headers
MdAlphabet == {"#", "a", " ", NL}

\* line 45: the title of the text before the first heading
Preamble == <<"p", "r", "e", "a", "m", "b", "l", "e">>

\* line 60: the title of a heading with no text
SectionPlaceholder == <<"s", "e", "c", "t", "i", "o", "n">>

\* the heading text "# Title\nbody\n## Sub\nmore"
ScenarioText ==
    <<"#", " ", "T", "i", "t", "l", "e", NL, "b", "o", "d", "y", NL,
      "#", "#", " ", "S", "u", "b", NL, "m", "o", "r", "e">>

\* lines 31, 49, 78: line.strip().startswith('#')
is_header(line) == StartsWith(Strip(line), <<"#">>)

\* lines 29-36: the lines clean_text_for_speech keeps of one line
cleaned_line(line) ==
    IF is_header(line)
    THEN IF Strip(LStripSet(line, {"#"})) /= <<>>
         THEN << Strip(LStripSet(line, {"#"})) >>
         ELSE <<>>
    ELSE <<line>>

RECURSIVE cleaned_lines(_)
cleaned_lines(ls) ==
    IF ls = <<>> THEN <<>> ELSE cleaned_line(Head(ls)) \o cleaned_lines(Tail(ls))

\* lines 25-38: the whole function
clean_text_for_speech(t) == Join(cleaned_lines(Split(t, <<NL>>)), <<NL>>)

\* lines 56-60: the title of a heading line
header_title(line) ==
    LET raw_title == Strip(LStripSet(line, {"#"}))
    IN  IF raw_title /= <<>> THEN raw_title ELSE SectionPlaceholder

\* seal_section testing the joined text instead of the list of lines, so
\* that a section whose lines are all blank is dropped
seal_section_skip_blank(st) ==
    IF Strip(Join(st.current_content, <<NL>>)) /= <<>>
    THEN Append(st.sections, <<st.current_title, Join(st.current_content, <<NL>>)>>)
    ELSE st.sections

\* lines 51-52, 69-70: the accumulated section is appended when it has lines
seal_section(st) ==
    IF st.current_content /= <<>>
    THEN Append(st.sections, <<st.current_title, Join(st.current_content, <<NL>>)>>)
    ELSE st.sections

\* line_step starting the new section empty, so that the heading line is in
\* no section
line_step_heading_dropped(st, line) ==
    IF is_header(line)
    THEN [sections |-> seal_section(st),
          current_title |-> header_title(line),
          current_content |-> <<>>]
    ELSE [st EXCEPT !.current_content = Append(@, line)]

\* lines 48-66: one iteration of the line loop;
\* st = [sections, current_title, current_content]
line_step(st, line) ==
    IF is_header(line)
    THEN [sections |-> seal_section(st),
          current_title |-> header_title(line),
          current_content |-> <<line>>]
    ELSE [st EXCEPT !.current_content = Append(@, line)]

RECURSIVE line_loop(_, _)
line_loop(st, ls) ==
    IF ls = <<>> THEN st ELSE line_loop(line_step(st, Head(ls)), Tail(ls))

\* lines 41-72: the whole function
split_markdown_by_headers(t) ==
    seal_section(line_loop([sections |-> <<>>, current_title |-> Preamble,
                            current_content |-> <<>>],
                           Split(t, <<NL>>)))

\* a call split_markdown_by_headers(text); lines 43-46 have run
InitSplit ==
    /\ mode = "split"
    /\ pc = "lines"
    /\ text \in SeqsUpTo(MdAlphabet, MaxMdLen) \cup {ScenarioText}
    /\ lines = Split(text, <<NL>>)
    /\ line_idx = 0
    /\ current_title = Preamble
    /\ current_content = <<>>
    /\ sections = <<>>
    /\ ChunksIdle /\ M4bIdle /\ MainIdle /\ BookIdle

SplitState == [sections |-> sections, current_title |-> current_title,
               current_content |-> current_content]

\* lines 49-63: the next line is a heading
SplitHeaderLine ==
    /\ mode = "split" /\ pc = "lines"
    /\ line_idx < Len(lines)
    /\ is_header(lines[line_idx + 1])
    /\ LET st == line_step(SplitState, lines[line_idx + 1])
       IN  /\ sections' = st.sections
           /\ current_title' = st.current_title
           /\ current_content' = st.current_content
    /\ line_idx' = line_idx + 1
    /\ UNCHANGED <<mode, pc, lines, chunkVars, m4bVars, mainVars, bookVars>>

\* lines 65-66: the next line is not a heading
SplitContentLine ==
    /\ mode = "split" /\ pc = "lines"
    /\ line_idx < Len(lines)
    /\ ~is_header(lines[line_idx + 1])
    /\ LET st == line_step(SplitState, lines[line_idx + 1])
       IN  /\ sections' = st.sections
           /\ current_title' = st.current_title
           /\ current_content' = st.current_content
    /\ line_idx' = line_idx + 1
    /\ UNCHANGED <<mode, pc, lines, chunkVars, m4bVars, mainVars, bookVars>>

\* lines 68-72: after the loop
SplitReturn ==
    /\ mode = "split" /\ pc = "lines"
    /\ line_idx = Len(lines)
    /\ sections' = seal_section(SplitState)
    /\ pc' = "returned"
    /\ UNCHANGED <<mode, lines, line_idx, current_title, current_content, chunkVars,
                   m4bVars, mainVars, bookVars>>

NextSplit == SplitHeaderLine \/ SplitContentLine \/ SplitReturn

SpecSplit == InitSplit /\ [][NextSplit]_vars

-----------------------------------------------------------------------------
(* Claims about split_markdown_by_headers *)

\* some line of t, trimmed, starts with '#': a '#' with only whitespace
\* between it and the start of its line
HasHeading(t) ==
    \E i \in DOMAIN t :
        /\ t[i] = "#"
        /\ \A j \in 1..(i - 1) :
              (\A k \in j..(i - 1) : t[k] /= NL) => t[j] \in Whitespace

\* C4: a text with no heading line yields exactly one section, titled
\* "preamble", whose content is the whole text.
C4_NoHeadingOneSection ==
    (mode = "split" /\ pc = "returned" /\ ~HasHeading(text)) =>
        sections = << <<Preamble, text>> >>

\* C4 witness: a returned split of a heading-free text of several lines.
C4_Witness ==
    /\ mode = "split" /\ pc = "returned"
    /\ ~HasHeading(text)
    /\ Len(lines) >= 3 /\ Len(text) >= 4
    /\ sections = << <<Preamble, text>> >>

\* the first line of a section's content
FirstLine(section_content) == Split(section_content, <<NL>>)[1]

\* C9: a section started by a heading line is titled by that line with the
\* heading markers and surrounding whitespace stripped, so its title never
\* begins with '#' or whitespace, and is "section" when nothing remains; the
\* text "# Title\nbody\n## Sub\nmore" splits into ("Title", "# Title\nbody")
\* and ("Sub", "## Sub\nmore").
C9_TitleStripped ==
    mode = "split" =>
        /\ \A i \in DOMAIN sections :
              is_header(FirstLine(sections[i][2])) =>
                  /\ sections[i][1] /= <<>>
                  /\ sections[i][1][1] \notin ({"#"} \cup Whitespace)
                  /\ (Range(FirstLine(sections[i][2])) \subseteq ({"#"} \cup Whitespace)
                        => sections[i][1] = SectionPlaceholder)
        /\ (pc = "returned" /\ text = ScenarioText) =>
              sections = << <<<<"T", "i", "t", "l", "e">>,
                              <<"#", " ", "T", "i", "t", "l", "e", NL, "b", "o", "d", "y">> >>,
                            <<<<"S", "u", "b">>,
                              <<"#", "#", " ", "S", "u", "b", NL, "m", "o", "r", "e">> >> >>

\* the lines of the content of section i
SectionLines(i) == Split(sections[i][2], <<NL>>)

\* the lines of the sections i.. in order
RECURSIVE LinesFrom(_)
LinesFrom(i) ==
    IF i > Len(sections) THEN <<>> ELSE SectionLines(i) \o LinesFrom(i + 1)

\* C21: the split loses and reorders nothing. The lines of the returned
\* sections, taken in order, are the lines of the text, so every line is in
\* exactly one section and in source order; a heading line is always the
\* first line of its section and every section after the first begins with a
\* heading line, so every heading line begins exactly one section, whose
\* content starts with that line verbatim; and the contents of the sections
\* joined with a newline are the text.
C21_SplitLosesNothing ==
    (mode = "split" /\ pc = "returned") =>
        /\ LinesFrom(1) = lines
        /\ \A i \in DOMAIN sections :
              /\ i > 1 => is_header(SectionLines(i)[1])
              /\ \A k \in 2..Len(SectionLines(i)) : ~is_header(SectionLines(i)[k])
        /\ Join([i \in DOMAIN sections |-> sections[i][2]], <<NL>>) = text

\* C21 witness: a returned split of a text with a preamble and two heading
\* lines, in three sections.
C21_Witness ==
    /\ mode = "split" /\ pc = "returned"
    /\ Len(sections) = 3
    /\ ~is_header(lines[1])
    /\ Cardinality({i \in DOMAIN lines : is_header(lines[i])}) = 2
    /\ LinesFrom(1) = lines
    /\ Join([i \in DOMAIN sections |-> sections[i][2]], <<NL>>) = text

-----------------------------------------------------------------------------
(* 6_create_m4b.py: clean_title *)

Digits == {"0", "1", "2", "3", "4", "5", "6", "7", "8", "9"}

LowerCase == <<"a", "b", "c", "d", "e", "f", "g", "h", "i", "j", "k", "l", "m",
               "n", "o", "p", "q", "r", "s", "t", "u", "v", "w", "x", "y", "z">>

UpperCase == <<"A", "B", "C", "D", "E", "F", "G", "H", "I", "J", "K", "L", "M",
               "N", "O", "P", "Q", "R", "S", "T", "U", "V", "W", "X", "Y", "Z">>

LowerLetters == Range(LowerCase)

UpperLetters == Range(UpperCase)

CasedLetters == LowerLetters \cup UpperLetters

IsCased(c) == c \in CasedLetters

\* str.upper() of one character
ToUpper(c) ==
    IF c \in LowerLetters
    THEN UpperCase[CHOOSE i \in DOMAIN LowerCase : LowerCase[i] = c] ELSE c

\* str.lower() of one character
ToLower(c) ==
    IF c \in UpperLetters
    THEN LowerCase[CHOOSE i \in DOMAIN UpperCase : UpperCase[i] = c] ELSE c

\* the 1-based index of the last c in s, 0 when there is none (str.rfind + 1)
LastIndexOf(s, c) ==
    IF \E i \in DOMAIN s : s[i] = c
    THEN CHOOSE i \in DOMAIN s : s[i] = c /\ \A j \in (i + 1)..Len(s) : s[j] /= c
    ELSE 0

\* line 47: Path(filename).stem, the name without its last suffix; a name
\* has a suffix when its last '.' is neither its first nor its last character
stem(filename) ==
    LET dot == LastIndexOf(filename, ".")
    IN  IF 1 < dot /\ dot < Len(filename) THEN SubSeq(filename, 1, dot - 1) ELSE filename

\* line 51: re.sub(r'^\d+[\s_-]+', '', name)
strip_ordering_prefix(name) ==
    LET afterDigits == LStripSet(name, Digits)
        afterSeps == LStripSet(afterDigits, Whitespace \cup {"_", "-"})
    IN  IF Len(afterDigits) < Len(name) /\ Len(afterSeps) < Len(afterDigits)
        THEN afterSeps ELSE name

\* line 54: name.replace('_', ' ').replace('-', ' ')
separators_to_spaces(name) ==
    Replace(Replace(name, <<"_">>, <<" ">>), <<"-">>, <<" ">>)

\* line 57: str.title(); a cased character is upper-cased when the character
\* before it is not cased and lower-cased when it is
RECURSIVE title_from(_, _)
title_from(name, previous_is_cased) ==
    IF name = <<>> THEN <<>>
    ELSE << IF previous_is_cased THEN ToLower(Head(name)) ELSE ToUpper(Head(name)) >>
         \o title_from(Tail(name), IsCased(Head(name)))

\* title_case with only the first character upper-cased, as str.capitalize()
title_case_capitalize(name) ==
    IF name = <<>> THEN <<>>
    ELSE <<ToUpper(Head(name))>> \o [i \in 1..(Len(name) - 1) |-> ToLower(name[i + 1])]

\* line 57: name.title()
title_case(name) == title_from(name, FALSE)

\* lines 44-57: the whole function
clean_title(filename) ==
    title_case(separators_to_spaces(strip_ordering_prefix(stem(filename))))

-----------------------------------------------------------------------------
(* 6_create_m4b.py: create_m4b *)

\* the file names create_m4b is called with, in the sorted order main() gives
FileNames == <<
    <<"0", "1", "_", "I", "n", "t", "r", "o", ".", "m", "p", "3">>,
    <<"0", "2", "_", "T", "h", "e", "_", "J", "o", "u", "r", "n", "e", "y", ".", "m", "p", "3">>,
    <<"0", "3", "_", "E", "n", "d", ".", "m", "p", "3">>,
    <<"0", "4", " ", "-", " ", "m", "y", "-", "F", "I", "L", "E", ".", "t", "a", "r", ".", "g", "z">>,
    <<"0", "6", "\t", "x", " ", "y", ".", "m", "p", "3">>,
    <<"5", "i", "v", "e", ".", "w", "a", "v">>,
    <<"n", "o", "t", "e", "'", "s", "_", "v", "2">>
>>

\* line 39: a duration is a number of seconds; the model counts it in units
\* of 1/TicksPerSecond of a second, finer than the milliseconds of the
\* metadata
TicksPerSecond == 4000

\* durations ffprobe reports (60.0, 120.5, 30.0, 1.23475 and 0 seconds); the
\* floats of the source are these integers, whose sums are exact
Durations == {0, 4939, 120000, 240000, 482000}

\* ProbeOutcomes with -1 returned after a failed probe, as a sentinel
ProbeOutcomesSentinel ==
    [ok : {TRUE}, duration : Durations] \cup {[ok |-> FALSE, duration |-> -1]}

\* lines 28-42: what get_audio_duration can return: the probed duration, or 0
\* after a failed probe
ProbeOutcomes ==
    [ok : {TRUE}, duration : Durations] \cup {[ok |-> FALSE, duration |-> 0]}

\* the strictly increasing index lists of length at most n into 1..m
RECURSIVE IncreasingUpTo(_, _)
IncreasingUpTo(m, n) ==
    IF n = 0 THEN {<<>>}
    ELSE LET shorter == IncreasingUpTo(m, n - 1)
         IN  shorter \cup
             UNION {{Append(s, k) : k \in {j \in 1..m : s = <<>> \/ j > s[Len(s)]}} :
                    s \in {t \in shorter : Len(t) = n - 1}}

\* new_chapter with the end taken from the duration alone, the cursor forgotten
new_chapter_no_cursor(file_name, cursor, duration) ==
    [title |-> clean_title(file_name), start |-> cursor, end |-> duration]

\* lines 108-112: the chapter of one file
new_chapter(file_name, cursor, duration) ==
    [title |-> clean_title(file_name), start |-> cursor, end |-> cursor + duration]

\* lines 101-102: the line written to concat_list.txt for one file, single
\* quotes escaped for the concat demuxer
concat_line(file_path) ==
    <<"f", "i", "l", "e", " ", "'">> \o Replace(file_path, <<"'">>, <<"'", "\\", "'", "'">>)
    \o <<"'", NL>>

\* lines 76, 77, 70: an integer formatted in an f-string
RECURSIVE format_int(_)
format_int(n) ==
    LET digit(d) == <<"0", "1", "2", "3", "4", "5", "6", "7", "8", "9">>[d + 1]
    IN  IF n < 10 THEN <<digit(n)>> ELSE Append(format_int(n \div 10), digit(n % 10))

\* to_milliseconds rounding to the nearest millisecond instead of truncating
to_milliseconds_rounded(seconds) ==
    (seconds * 1000 + TicksPerSecond \div 2) \div TicksPerSecond

\* lines 76, 77: int(seconds * 1000), of a time that is not negative
to_milliseconds(seconds) == (seconds * 1000) \div TicksPerSecond

\* lines 74-79: the lines of one chapter
chapter_lines(chapter) ==
    << <<"[", "C", "H", "A", "P", "T", "E", "R", "]">>,
       <<"T", "I", "M", "E", "B", "A", "S", "E", "=", "1", "/", "1", "0", "0", "0">>,
       <<"S", "T", "A", "R", "T", "=">> \o format_int(to_milliseconds(chapter.start)),
       <<"E", "N", "D", "=">> \o format_int(to_milliseconds(chapter.end)),
       <<"t", "i", "t", "l", "e", "=">> \o chapter.title,
       <<>> >>

RECURSIVE chapters_lines(_)
chapters_lines(chs) ==
    IF chs = <<>> THEN <<>> ELSE chapter_lines(Head(chs)) \o chapters_lines(Tail(chs))

\* lines 61-71: the lines before the chapters; title and author are <<>>
\* when not given
global_lines(title, author, year) ==
    << <<";", "F", "F", "M", "E", "T", "A", "D", "A", "T", "A", "1">> >>
    \o (IF title /= <<>> THEN << <<"t", "i", "t", "l", "e", "=">> \o title >> ELSE <<>>)
    \o (IF author /= <<>>
        THEN << <<"a", "r", "t", "i", "s", "t", "=">> \o author,
                <<"a", "l", "b", "u", "m", "_", "a", "r", "t", "i", "s", "t", "=">> \o author >>
        ELSE <<>>)
    \o << <<"a", "l", "b", "u", "m", "=">>
            \o (IF title /= <<>> THEN title ELSE <<"A", "u", "d", "i", "o", "b", "o", "o", "k">>),
          <<"g", "e", "n", "r", "e", "=", "A", "u", "d", "i", "o", "b", "o", "o", "k">>,
          <<"d", "a", "t", "e", "=">> \o format_int(year),
          <<>> >>

\* lines 59-81: the whole function
generate_ffmpeg_metadata(chs, title, author, year) ==
    Join(global_lines(title, author, year) \o chapters_lines(chs), <<NL>>)

\* lines 201-202, 83: --title and --author as create_m4b gets them, <<>>
\* when not given
BookTags == {[title |-> <<>>, author |-> <<>>],
             [title |-> <<"M", "y", " ", "B", "o", "o", "k">>,
              author |-> <<"J", "o", "h", "n">>]}

\* line 70: datetime.now().year
Years == {2026}

\* a call create_m4b(input_files, ...)
InitM4b ==
    /\ mode = "m4b"
    /\ pc = "check_input"
    /\ \E picked \in IncreasingUpTo(Len(FileNames), MaxFiles) :
          input_files = [i \in DOMAIN picked |-> FileNames[picked[i]]]
    /\ file_idx = 0
    /\ chapters = <<>>
    /\ current_time = 0
    /\ probed = <<>>
    /\ concat_list = <<>>
    /\ metadata_content = <<>>
    /\ tmp_files = {}
    /\ probe_errors = <<>>
    /\ m4b_result = "none"
    /\ text = <<>> /\ ChunksIdle /\ SplitIdle /\ MainIdle /\ BookIdle

\* lines 86-88: no input files
M4bNoInput ==
    /\ mode = "m4b" /\ pc = "check_input"
    /\ input_files = <<>>
    /\ m4b_result' = "false"
    /\ pc' = "returned"
    /\ UNCHANGED <<mode, chunkVars, splitVars, mainVars, bookVars, input_files, file_idx, chapters,
                   current_time, probed, concat_list, metadata_content, tmp_files,
                   probe_errors>>

\* lines 90-98: the concat list file is created
M4bOpenConcatList ==
    /\ mode = "m4b" /\ pc = "check_input"
    /\ input_files /= <<>>
    /\ tmp_files' = tmp_files \cup {"concat_list.txt"}
    /\ pc' = "files"
    /\ UNCHANGED <<mode, chunkVars, splitVars, mainVars, bookVars, input_files, file_idx, chapters,
                   current_time, probed, concat_list, metadata_content, probe_errors,
                   m4b_result>>

\* lines 99-115: the loop body for the next file; get_audio_duration prints
\* an error for a file whose probe failed (lines 40-42)
M4bNextFile ==
    /\ mode = "m4b" /\ pc = "files"
    /\ file_idx < Len(input_files)
    /\ \E probe \in ProbeOutcomes :
          LET file_path == input_files[file_idx + 1]
          IN  /\ concat_list' = concat_list \o concat_line(file_path)
              /\ probed' = Append(probed, probe)
              /\ probe_errors' = IF probe.ok THEN probe_errors
                                 ELSE Append(probe_errors, file_path)
              /\ chapters' = Append(chapters,
                                    new_chapter(file_path, current_time, probe.duration))
              /\ current_time' = current_time + probe.duration
    /\ file_idx' = file_idx + 1
    /\ UNCHANGED <<mode, pc, chunkVars, splitVars, mainVars, bookVars, input_files, tmp_files,
                   metadata_content, m4b_result>>

\* lines 117-122: after the loop the metadata is generated
M4bGenerateMetadata ==
    /\ mode = "m4b" /\ pc = "files"
    /\ file_idx = Len(input_files)
    /\ \E tags \in BookTags, year \in Years :
          metadata_content' =
              generate_ffmpeg_metadata(chapters, tags.title, tags.author, year)
    /\ pc' = "metadata"
    /\ UNCHANGED <<mode, chunkVars, splitVars, mainVars, bookVars, input_files, file_idx, chapters,
                   current_time, probed, concat_list, tmp_files, probe_errors,
                   m4b_result>>

\* lines 123-124: the metadata file is written
M4bWriteMetadata ==
    /\ mode = "m4b" /\ pc = "metadata"
    /\ tmp_files' = tmp_files \cup {"metadata.txt"}
    /\ pc' = "encode"
    /\ UNCHANGED <<mode, chunkVars, splitVars, mainVars, bookVars, input_files, file_idx, chapters,
                   current_time, probed, concat_list, metadata_content, probe_errors,
                   m4b_result>>

\* lines 123-124: writing the metadata file raises OSError, either in open()
\* (no file is created) or in f.write() (the file exists); the statement is
\* outside the try of line 156, so the exception leaves create_m4b at once
M4bWriteMetadataFails ==
    /\ mode = "m4b" /\ pc = "metadata"
    /\ \E created \in BOOLEAN :
          tmp_files' = IF created THEN tmp_files \cup {"metadata.txt"} ELSE tmp_files
    /\ m4b_result' = "raised"
    /\ pc' = "returned"
    /\ UNCHANGED <<mode, chunkVars, splitVars, mainVars, bookVars, input_files, file_idx, chapters,
                   current_time, probed, concat_list, metadata_content, probe_errors>>

\* lines 155-170: ffmpeg runs and the temporary files are removed in the
\* finally block. ffmpeg exits with 0 (True is returned), exits with an error
\* (CalledProcessError is caught, False is returned) or cannot be started
\* (FileNotFoundError is not caught and leaves create_m4b after the finally)
M4bEncode ==
    /\ mode = "m4b" /\ pc = "encode"
    /\ \E outcome \in {"ok", "exit_error", "not_started"} :
          m4b_result' = CASE outcome = "ok" -> "true"
                          [] outcome = "exit_error" -> "false"
                          [] OTHER -> "raised"
    /\ tmp_files' = tmp_files \ {"concat_list.txt", "metadata.txt"}
    /\ pc' = "returned"
    /\ UNCHANGED <<mode, chunkVars, splitVars, mainVars, bookVars, input_files, file_idx, chapters,
                   current_time, probed, concat_list, metadata_content, probe_errors>>

NextM4b ==
    \/ M4bNoInput \/ M4bOpenConcatList \/ M4bNextFile \/ M4bGenerateMetadata
    \/ M4bWriteMetadata \/ M4bWriteMetadataFails \/ M4bEncode

SpecM4b == InitM4b /\ [][NextM4b]_vars

-----------------------------------------------------------------------------
(* 3_md_to_mp3.py: main *)

\* input_path.stem, the name of the markdown file without ".md"
InputStem == <<"b", "k">>

\* the lines the bounded markdown files are made of
DocLines == {
    <<"#", " ", "a">>,
    <<"#", "a", "!">>,
    <<"#", " ", "b">>,
    <<"#">>,
    <<"#", " ", "a", "_", "c", "h", "u", "n", "k", "_", "0">>,
    <<"x">>,
    <<"a", "a", ".", " ", "b", "b", ".", " ", "c", "c">>,
    <<>>
}

Providers == {"elevenlabs", "openai", "google"}

\* lines 317-319
file_extension(p) == IF p = "google" THEN <<"w", "a", "v">> ELSE <<"m", "p", "3">>

\* lines 325, 343, 357
max_chunk_size(p) ==
    CASE p = "elevenlabs" -> ElevenLabsChunkSize
      [] p = "google" -> GoogleChunkSize
      [] OTHER -> OpenAIChunkSize

\* the characters the regular expression class \w matches
WordChars == Range(LowerCase) \cup Range(UpperCase) \cup Digits \cup {"_"}

\* str.lower()
Lower(s) == [i \in DOMAIN s |-> ToLower(s[i])]

\* line 397: re.sub(r'[-\s]+', '_', s)
RECURSIVE collapse_separators(_)
collapse_separators(s) ==
    IF s = <<>> THEN <<>>
    ELSE IF Head(s) \in Whitespace \cup {"-"}
         THEN <<"_">> \o collapse_separators(LStripSet(s, Whitespace \cup {"-"}))
         ELSE <<Head(s)>> \o collapse_separators(Tail(s))

\* lines 396-398: the file name made of a section title
clean_section_title(section_title) ==
    collapse_separators(
        Strip(SelectSeq(section_title,
                        LAMBDA c : c \in WordChars \cup Whitespace \cup {"-"})))

\* lines 387-405: safe_title of a section, n_sections = len(sections)
safe_title(section_title, n_sections) ==
    LET named == IF section_title = Preamble
                 THEN IF n_sections = 1 THEN InputStem
                      ELSE InputStem \o <<"_", "p", "r", "e", "a", "m", "b", "l", "e">>
                 ELSE clean_section_title(section_title)
        no_md == IF EndsWith(Lower(named), <<"m", "d">>)
                 THEN SubSeq(named, 1, Len(named) - 2) ELSE named
    IN  RStripSet(no_md, {"_", "-"})

\* line 407: output_file, as a name inside output_dir
output_file_of(section_title, n_sections, p) ==
    safe_title(section_title, n_sections) \o <<".">> \o file_extension(p)

\* str(idx) of an index below 100
IntToStr(n) ==
    LET digit(d) == CHOOSE c \in Digits :
                        c = <<"0", "1", "2", "3", "4", "5", "6", "7", "8", "9">>[d + 1]
    IN  IF n < 10 THEN <<digit(n)>> ELSE <<digit(n \div 10), digit(n % 10)>>

\* chunk_output without the chunk suffix: every chunk written to output_file
chunk_output_no_suffix(output_file, n_chunks, i, p) == output_file

\* lines 428-437: chunk_output of chunk i of n_chunks
chunk_output(output_file, n_chunks, i, p) ==
    IF n_chunks > 1
    THEN stem(output_file) \o <<"_", "c", "h", "u", "n", "k", "_">> \o IntToStr(i)
         \o <<".">> \o file_extension(p)
    ELSE output_file

\* the section the loop of line 383 is at
SectionTitle == sections[section_idx + 1][1]
SectionContent == sections[section_idx + 1][2]
OutputFile == output_file_of(SectionTitle, Len(sections), provider)

\* lines 327-335, 359-361: the configuration main() exits on: no API key
\* for elevenlabs or openai, no --voice for elevenlabs
config_fatal_voice_only(p, key_set, voice_given) == p = "elevenlabs" /\ ~voice_given

config_fatal(p, key_set, voice_given) ==
    \/ p \in {"elevenlabs", "openai"} /\ ~key_set
    \/ p = "elevenlabs" /\ ~voice_given

\* lines 151-156, 183-188, 222-228: the length in ms of the audio the
\* provider returns for a chunk; the providers of the model speak every
\* character in 100 ms
speech_ms(chunk) == 100 * Len(chunk)

\* line 253: the pause added after each chunk, in ms
SilenceMs == 500

\* an entry of io_log
FileOp(op, file) == [op |-> op, file |-> file]

\* a piece of audio: what was read from a file, or a pause
Piece(file, ms) == [silent |-> FALSE, file |-> file, ms |-> ms]
Pause(ms) == [silent |-> TRUE, file |-> <<>>, ms |-> ms]

\* combined_audio without the pause of line 253
RECURSIVE combined_audio_no_pause(_, _)
combined_audio_no_pause(files, ms) ==
    IF files = <<>> THEN <<>>
    ELSE <<Piece(Head(files), Head(ms))>> \o combined_audio_no_pause(Tail(files), Tail(ms))

\* lines 247-253: combined, the pieces of the merged audio in order
RECURSIVE combined_audio(_, _)
combined_audio(files, ms) ==
    IF files = <<>> THEN <<>>
    ELSE <<Piece(Head(files), Head(ms)), Pause(SilenceMs)>>
         \o combined_audio(Tail(files), Tail(ms))

\* append_audio_file putting the new file first
append_audio_file_first(files, out) == <<out>> \o files

\* line 450: audio_files.append(str(chunk_output))
append_audio_file(files, out) == Append(files, out)

RECURSIVE remove_ops(_)
remove_ops(files) ==
    IF files = <<>> THEN <<>>
    ELSE <<FileOp("remove", Head(files))>> \o remove_ops(Tail(files))

\* one invocation of main() on a markdown file, the first with an empty
\* output folder; lines 280-319 have run
InitMain ==
    /\ mode = "main"
    /\ pc = "config"
    /\ provider \in Providers
    /\ credential \in BOOLEAN
    /\ voice \in BOOLEAN
    /\ input_exists \in BOOLEAN
    /\ pydub \in BOOLEAN
    /\ content \in {Join(ls, <<NL>>) : ls \in SeqsUpTo(DocLines, MaxDocLines)}
    /\ fs = {}
    /\ sections = <<>>
    /\ section_idx = 0
    /\ chunks = <<>>
    /\ idx = 0
    /\ audio_files = <<>>
    /\ audio_ms = <<>>
    /\ synth_log = <<>>
    /\ merged = <<>>
    /\ io_log = <<>>
    /\ in_flight = {}
    /\ run = 1
    /\ prev = <<>>
    /\ text = <<>> /\ max_chars = 0 /\ paragraphs = <<>> /\ para_idx = 0
    /\ current_chunk = <<>>
    /\ lines = <<>> /\ line_idx = 0 /\ current_title = <<>> /\ current_content = <<>>
    /\ M4bIdle /\ BookIdle

\* lines 321-364: the provider's configuration is incomplete, main() exits
\* with status 1
MainConfigExit ==
    /\ mode = "main" /\ pc = "config"
    /\ config_fatal(provider, credential, voice)
    /\ pc' = "exit1_config"
    /\ UNCHANGED <<mode, chunkVars, splitVars, m4bVars, mainVars, bookVars>>

\* lines 321-364: the configuration is accepted; for google a missing
\* GOOGLE_APPLICATION_CREDENTIALS only prints a warning (lines 346-348)
MainConfigOk ==
    /\ mode = "main" /\ pc = "config"
    /\ ~config_fatal(provider, credential, voice)
    /\ pc' = "read"
    /\ UNCHANGED <<mode, chunkVars, splitVars, m4bVars, mainVars, bookVars>>

\* lines 366-370: the input file does not exist, main() exits with status 1
MainInputMissing ==
    /\ mode = "main" /\ pc = "read"
    /\ ~input_exists
    /\ pc' = "exit1_input"
    /\ UNCHANGED <<mode, chunkVars, splitVars, m4bVars, mainVars, bookVars>>

\* lines 366-381: the output folder is created, the file is read and split
\* into sections
MainReadAndSplit ==
    /\ mode = "main" /\ pc = "read"
    /\ input_exists
    /\ io_log' = io_log \o <<FileOp("mkdir", <<>>), FileOp("read", <<>>)>>
    /\ sections' = split_markdown_by_headers(content)
    /\ pc' = "section"
    /\ UNCHANGED <<mode, chunkVars, splitLocals, m4bVars, bookVars, provider, content, fs,
                   section_idx, idx, audio_files, synth_log, merged, pydub, credential,
                   voice, input_exists, in_flight, audio_ms, run, prev>>

\* lines 383-412: the section's output file already exists
MainSkipExisting ==
    /\ mode = "main" /\ pc = "section"
    /\ section_idx < Len(sections)
    /\ OutputFile \in fs
    /\ section_idx' = section_idx + 1
    /\ UNCHANGED <<mode, pc, chunkVars, splitVars, m4bVars, bookVars, provider, content, fs, idx,
                   audio_files, synth_log, merged, pydub, credential, voice,
                   input_exists, io_log, in_flight, audio_ms, run, prev>>

\* lines 414-420: the section has no text to speak
MainSkipEmpty ==
    /\ mode = "main" /\ pc = "section"
    /\ section_idx < Len(sections)
    /\ OutputFile \notin fs
    /\ Strip(clean_text_for_speech(SectionContent)) = <<>>
    /\ section_idx' = section_idx + 1
    /\ UNCHANGED <<mode, pc, chunkVars, splitVars, m4bVars, bookVars, provider, content, fs, idx,
                   audio_files, synth_log, merged, pydub, credential, voice,
                   input_exists, io_log, in_flight, audio_ms, run, prev>>

\* lines 422-428: the section is split into chunks
MainSplitSection ==
    /\ mode = "main" /\ pc = "section"
    /\ section_idx < Len(sections)
    /\ OutputFile \notin fs
    /\ Strip(clean_text_for_speech(SectionContent)) /= <<>>
    /\ chunks' = split_text_into_chunks(clean_text_for_speech(SectionContent),
                                        max_chunk_size(provider))
    /\ audio_files' = <<>>
    /\ audio_ms' = <<>>
    /\ idx' = 0
    /\ pc' = "chunk"
    /\ UNCHANGED <<mode, chunkLocals, splitVars, m4bVars, bookVars, provider, content, fs,
                   section_idx, synth_log, merged, pydub, credential, voice,
                   input_exists, io_log, in_flight, run, prev>>

\* the call the chunk loop is at
CurrentCall == [section |-> section_idx, chunk |-> idx]

\* lines 430-445: text_to_speech_* is called for the next chunk
MainSynthCall ==
    /\ mode = "main" /\ pc = "chunk"
    /\ idx < Len(chunks)
    /\ in_flight' = in_flight \cup {CurrentCall}
    /\ pc' = "synth"
    /\ UNCHANGED <<mode, chunkVars, splitVars, m4bVars, bookVars, provider, content, fs,
                   section_idx, idx, audio_files, synth_log, merged, pydub, credential,
                   voice, input_exists, io_log, audio_ms, run, prev>>

\* lines 447-450, 455-457: the call returns True, having written chunk_output
MainSynthOk ==
    /\ mode = "main" /\ pc = "synth"
    /\ LET out == chunk_output(OutputFile, Len(chunks), idx, provider)
       IN  /\ fs' = fs \cup {out}
           /\ io_log' = Append(io_log, FileOp("write", out))
           /\ audio_files' = append_audio_file(audio_files, out)
           /\ audio_ms' = Append(audio_ms, speech_ms(chunks[idx + 1]))
           /\ synth_log' = Append(synth_log, [section |-> section_idx, chunk |-> idx,
                                              file |-> out, ok |-> TRUE])
    /\ in_flight' = in_flight \ {CurrentCall}
    /\ idx' = idx + 1
    /\ pc' = "chunk"
    /\ UNCHANGED <<mode, chunkVars, splitVars, m4bVars, bookVars, provider, content,
                   section_idx, merged, pydub, credential, voice, input_exists, run, prev>>

\* MainSynthFail with the failure caught at the section loop: the section is
\* given up and the loop goes on with the next one
MainSynthFailContinue ==
    /\ mode = "main" /\ pc = "synth"
    /\ synth_log' = Append(synth_log,
                           [section |-> section_idx, chunk |-> idx,
                            file |-> chunk_output(OutputFile, Len(chunks), idx, provider),
                            ok |-> FALSE])
    /\ in_flight' = in_flight \ {CurrentCall}
    /\ section_idx' = section_idx + 1
    /\ pc' = "section"
    /\ UNCHANGED <<mode, chunkVars, splitVars, m4bVars, bookVars, provider, content, fs,
                   idx, audio_files, merged, pydub, credential, voice, input_exists,
                   io_log, audio_ms, run, prev>>

\* lines 451-453: the call returns False and main() exits with status 1.
\* text_to_speech_elevenlabs and _openai open chunk_output only after the
\* request succeeded (lines 151-156, 183-188); text_to_speech_google catches
\* every exception, also one raised while the opened file is written
\* (lines 227-228, 236-238)
MainSynthFail ==
    /\ mode = "main" /\ pc = "synth"
    /\ LET out == chunk_output(OutputFile, Len(chunks), idx, provider)
       IN  /\ \E partial \in (IF provider = "google" THEN BOOLEAN ELSE {FALSE}) :
                 /\ fs' = IF partial THEN fs \cup {out} ELSE fs
                 /\ io_log' = IF partial THEN Append(io_log, FileOp("write", out))
                              ELSE io_log
           /\ synth_log' = Append(synth_log, [section |-> section_idx, chunk |-> idx,
                                              file |-> out, ok |-> FALSE])
    /\ in_flight' = in_flight \ {CurrentCall}
    /\ pc' = "exit1"
    /\ UNCHANGED <<mode, chunkVars, splitVars, m4bVars, bookVars, provider, content, section_idx,
                   idx, audio_files, merged, pydub, credential, voice, input_exists,
                   audio_ms, run, prev>>

\* lines 241-276: the files in the output folder after
\* merge_audio_files(audio_files, output_file)
merge_audio_files(files, output_file, disk) ==
    IF pydub THEN (disk \cup {output_file}) \ Range(files) ELSE disk

\* lines 459-463: after the last chunk, several audio files are merged
MainFinishSection ==
    /\ mode = "main" /\ pc = "chunk"
    /\ idx = Len(chunks)
    /\ IF Len(audio_files) > 1
       THEN /\ fs' = merge_audio_files(audio_files, OutputFile, fs)
            /\ io_log' = IF pydub
                         THEN Append(io_log, FileOp("write", OutputFile))
                              \o remove_ops(audio_files)
                         ELSE io_log
            /\ merged' = Append(merged,
                                [section |-> section_idx, files |-> audio_files,
                                 durations |-> audio_ms, ok |-> pydub,
                                 audio |-> IF pydub
                                           THEN combined_audio(audio_files, audio_ms)
                                           ELSE <<>>])
       ELSE UNCHANGED <<fs, io_log, merged>>
    /\ section_idx' = section_idx + 1
    /\ pc' = "section"
    /\ UNCHANGED <<mode, chunkVars, splitVars, m4bVars, bookVars, provider, content, idx,
                   audio_files, synth_log, pydub, credential, voice, input_exists,
                   in_flight, audio_ms, run, prev>>

\* line 383: no section is left, main() returns
MainDone ==
    /\ mode = "main" /\ pc = "section"
    /\ section_idx = Len(sections)
    /\ pc' = "done"
    /\ UNCHANGED <<mode, chunkVars, splitVars, m4bVars, mainVars, bookVars>>

\* lines 467-468: after main() returned the script is run again on the same
\* document with the same arguments and environment; the output folder is
\* what the run before left
MainRerun ==
    /\ mode = "main" /\ pc = "done"
    /\ run < MaxRuns
    /\ run' = run + 1
    /\ prev' = <<[sections |-> sections, synth_log |-> synth_log, merged |-> merged]>>
    /\ pc' = "config"
    /\ sections' = <<>>
    /\ section_idx' = 0
    /\ chunks' = <<>>
    /\ idx' = 0
    /\ audio_files' = <<>>
    /\ audio_ms' = <<>>
    /\ synth_log' = <<>>
    /\ merged' = <<>>
    /\ io_log' = <<>>
    /\ UNCHANGED <<mode, chunkLocals, splitLocals, m4bVars, bookVars, provider, content, fs, pydub,
                   credential, voice, input_exists, in_flight>>

NextMain ==
    \/ MainConfigExit \/ MainConfigOk \/ MainInputMissing \/ MainReadAndSplit
    \/ MainSkipExisting \/ MainSkipEmpty \/ MainSplitSection
    \/ MainSynthCall \/ MainSynthOk \/ MainSynthFail \/ MainFinishSection
    \/ MainDone \/ MainRerun

SpecMain == InitMain /\ [][NextMain]_vars

-----------------------------------------------------------------------------
(* 2_write_book_using_ai.py: main *)

\* the rows of the CSV file that pass the filter: file_name is the name of a
\* note and relative_path its path in the folder (1_create_csv.py lines
\* 38-39), so two notes of different folders can have the same file_name
RowPool == {
    [file_name |-> <<"a", ".", "m", "d">>, relative_path |-> <<"a", ".", "m", "d">>],
    [file_name |-> <<"a", ".", "m", "d">>, relative_path |-> <<"s", "/", "a", ".", "m", "d">>],
    [file_name |-> <<"b", ".", "m", "d">>, relative_path |-> <<"b", ".", "m", "d">>]
}

\* the lists of at most n different rows
RECURSIVE RowLists(_)
RowLists(n) ==
    IF n = 0 THEN {<<>>}
    ELSE LET shorter == RowLists(n - 1)
         IN  shorter \cup
             UNION {{Append(l, r) : r \in RowPool \ Range(l)} :
                    l \in {t \in shorter : Len(t) = n - 1}}

\* line 75: texts the API returns for a note; one holds a markdown heading
Responses == { <<"x">>, <<"#", " ", "b", ".", "m", "d">> }

\* lines 83-101: get_already_processed_files, of an output file that can be
\* read; a missing file is read as the empty text
processed_files(t) ==
    { Strip(SubSeq(line, 3, Len(line))) :
        line \in {l \in Range(LinesOf(t)) : StartsWith(l, <<"#", " ">>)} }

\* lines 104-109: the text append_to_output_file appends
output_entry(file_name, ai_response) ==
    <<"#", " ">> \o file_name \o <<NL, NL>> \o ai_response \o <<NL, NL>>

\* an invocation of main() with its arguments and environment complete
\* (lines 162-176 have run)
InitBook ==
    /\ mode = "book"
    /\ pc = "start"
    /\ filtered_rows \in RowLists(MaxRows)
    /\ row_idx = 0
    /\ output_text = <<>>
    /\ already_processed = {}
    /\ ai_calls = <<>>
    /\ book_run = 1
    /\ text = <<>> /\ ChunksIdle /\ SplitIdle /\ M4bIdle /\ MainIdle

\* lines 179-181: no row passes the filter
BookNoRows ==
    /\ mode = "book" /\ pc = "start"
    /\ filtered_rows = <<>>
    /\ pc' = "exit0"
    /\ UNCHANGED <<mode, chunkVars, splitVars, m4bVars, mainVars, bookVars>>

\* lines 183-197: the names already in the output file are collected, once;
\* when the output file cannot be read the set is empty (lines 98-100)
BookStart ==
    /\ mode = "book" /\ pc = "start"
    /\ filtered_rows /= <<>>
    /\ \E readable \in IF output_text = <<>> THEN {TRUE} ELSE BOOLEAN :
          already_processed' = IF readable THEN processed_files(output_text) ELSE {}
    /\ pc' = "rows"
    /\ UNCHANGED <<mode, chunkVars, splitVars, m4bVars, mainVars, filtered_rows, row_idx,
                   output_text, ai_calls, book_run>>

\* the row the loop of line 200 is at
Row == filtered_rows[row_idx + 1]

\* lines 208-210: the row's file name is in already_processed
BookSkipProcessed ==
    /\ mode = "book" /\ pc = "rows"
    /\ row_idx < Len(filtered_rows)
    /\ Row.file_name \in already_processed
    /\ row_idx' = row_idx + 1
    /\ UNCHANGED <<mode, pc, chunkVars, splitVars, m4bVars, mainVars, filtered_rows,
                   output_text, already_processed, ai_calls, book_run>>

\* lines 214-218, 235-237: the note cannot be read (read_markdown_file
\* raises, the error is printed) or is blank: no call is made
BookSkipNote ==
    /\ mode = "book" /\ pc = "rows"
    /\ row_idx < Len(filtered_rows)
    /\ Row.file_name \notin already_processed
    /\ row_idx' = row_idx + 1
    /\ UNCHANGED <<mode, pc, chunkVars, splitVars, m4bVars, mainVars, filtered_rows,
                   output_text, already_processed, ai_calls, book_run>>

\* lines 214-224, 69-70: the note has text and is sent to the API
BookSend ==
    /\ mode = "book" /\ pc = "rows"
    /\ row_idx < Len(filtered_rows)
    /\ Row.file_name \notin already_processed
    /\ ai_calls' = Append(ai_calls,
                          [file_name |-> Row.file_name, relative_path |-> Row.relative_path,
                           run |-> book_run, result |-> "pending",
                           output_before |-> output_text, output_after |-> output_text])
    /\ pc' = "call"
    /\ UNCHANGED <<mode, chunkVars, splitVars, m4bVars, mainVars, filtered_rows, row_idx,
                   output_text, already_processed, book_run>>

\* lines 71-75, 224-233: the call returns a text, which is appended
BookCallOk ==
    /\ mode = "book" /\ pc = "call"
    /\ \E ai_response \in Responses :
          /\ output_text' = output_text \o output_entry(Row.file_name, ai_response)
          /\ ai_calls' = [ai_calls EXCEPT ![Len(ai_calls)].result = "ok",
                                          ![Len(ai_calls)].output_after = output_text']
    /\ row_idx' = row_idx + 1
    /\ pc' = "rows"
    /\ UNCHANGED <<mode, chunkVars, splitVars, m4bVars, mainVars, filtered_rows,
                   already_processed, book_run>>

\* lines 76-80, 235-237: the call raises; the error is printed and the loop
\* goes on
BookCallFails ==
    /\ mode = "book" /\ pc = "call"
    /\ ai_calls' = [ai_calls EXCEPT ![Len(ai_calls)].result = "failed"]
    /\ row_idx' = row_idx + 1
    /\ pc' = "rows"
    /\ UNCHANGED <<mode, chunkVars, splitVars, m4bVars, mainVars, filtered_rows,
                   output_text, already_processed, book_run>>

\* line 239: no row is left
BookDone ==
    /\ mode = "book" /\ pc = "rows"
    /\ row_idx = Len(filtered_rows)
    /\ pc' = "done"
    /\ UNCHANGED <<mode, chunkVars, splitVars, m4bVars, mainVars, bookVars>>

\* main() is invoked again with the same output file and some list of rows
BookRerun ==
    /\ mode = "book" /\ pc = "done"
    /\ book_run < MaxBookRuns
    /\ filtered_rows' \in RowLists(MaxRows)
    /\ row_idx' = 0
    /\ already_processed' = {}
    /\ book_run' = book_run + 1
    /\ pc' = "start"
    /\ UNCHANGED <<mode, chunkVars, splitVars, m4bVars, mainVars, output_text, ai_calls>>

NextBook ==
    \/ BookNoRows \/ BookStart \/ BookSkipProcessed \/ BookSkipNote \/ BookSend
    \/ BookCallOk \/ BookCallFails \/ BookDone \/ BookRerun

SpecBook == InitBook /\ [][NextBook]_vars

-----------------------------------------------------------------------------
(* Claims about main() of 3_md_to_mp3 *)

\* section t (counted from 0) has text to speak
HasText(t) == Strip(clean_text_for_speech(sections[t + 1][2])) /= <<>>

\* a text_to_speech_* call was made for a chunk of section t
Synthesized(t) == \E i \in DOMAIN synth_log : synth_log[i].section = t

\* main() has exited because the call for chunk idx of section section_idx failed
SynthesisFailed == mode = "main" /\ pc = "exit1"

\* C5: when the synthesis of a chunk of a section of several chunks fails, the
\* section is never merged, its output file is never created, and the audio
\* files of the chunks before the failed one are still on disk.
C5_FailedSectionNotAssembled ==
    (SynthesisFailed /\ Len(chunks) > 1) =>
        /\ \A i \in DOMAIN merged : merged[i].section /= section_idx
        /\ OutputFile \notin fs
        /\ \A j \in 0..(idx - 1) :
              chunk_output(OutputFile, Len(chunks), j, provider) \in fs

\* C5 witness: the call for chunk 2 of 3 failed, chunk 1's audio is on disk.
C5_Witness ==
    /\ SynthesisFailed
    /\ Len(chunks) = 3 /\ idx = 1
    /\ chunk_output(OutputFile, 3, 0, provider) \in fs

\* C6: after a chunk of a section failed, every later section that has text is
\* still sent to synthesis in the same run.
C6_SiblingsStillProcessed ==
    SynthesisFailed =>
        \A t \in (section_idx + 1)..(Len(sections) - 1) : HasText(t) => Synthesized(t)

\* C6 as amended: a failed synthesis call ends the run. It is the last call of
\* the run, main() has exited with status 1 at that section, and no later
\* section has been sent to synthesis.
C6_FailureEndsRun ==
    mode = "main" =>
        \A i \in DOMAIN synth_log :
            ~synth_log[i].ok =>
                /\ pc = "exit1"
                /\ i = Len(synth_log)
                /\ synth_log[i].section = section_idx
                /\ \A t \in (section_idx + 1)..(Len(sections) - 1) : ~Synthesized(t)

\* C6 witness: a chunk failed in a section that is followed by a section with text.
C6_Witness ==
    /\ SynthesisFailed
    /\ section_idx + 1 < Len(sections)
    /\ HasText(section_idx + 1)

\* C7: distinct sections get distinct output files, also when their titles
\* are equal or sanitise to the same name: in a run that started with an empty
\* output folder and ran to its end, every section with text has been sent to
\* synthesis, into an output file no other section with text shares.
C7_SectionsHaveOwnOutput ==
    (mode = "main" /\ pc = "done" /\ run = 1) =>
        \A t \in 0..(Len(sections) - 1) :
            HasText(t) =>
                /\ Synthesized(t)
                /\ \A u \in 0..(Len(sections) - 1) :
                      (u /= t /\ HasText(u)) =>
                          output_file_of(sections[u + 1][1], Len(sections), provider)
                              /= output_file_of(sections[t + 1][1], Len(sections), provider)

\* no file has been read, no folder created and no provider called
NoIOYet == io_log = <<>> /\ synth_log = <<>> /\ in_flight = {}

\* C15: for each provider, when the credential the provider requires is
\* missing from the environment the run ends with an error before the input
\* file is read, the output folder is created or a synthesis call is made.
C15_MissingCredentialAbortsBeforeIO ==
    (mode = "main" /\ ~credential) =>
        (pc \in {"config", "exit1_config"} /\ NoIOYet)

\* C15 as amended: for elevenlabs and openai a missing API key ends the run
\* with status 1 before the input file is read, the output folder is created
\* or a synthesis call is made.
C15_MissingApiKeyAbortsBeforeIO ==
    (mode = "main" /\ provider \in {"elevenlabs", "openai"} /\ ~credential) =>
        (pc \in {"config", "exit1_config"} /\ NoIOYet)

\* C15 witness: a run for openai with no OPENAI_API_KEY and a readable input
\* file has exited.
C15_Witness ==
    /\ mode = "main" /\ pc = "exit1_config"
    /\ provider = "openai" /\ ~credential /\ input_exists
    /\ NoIOYet

\* in the invocation before this one main() returned after every section was
\* sent to synthesis, every call succeeded and every merge succeeded
PreviousRunSucceeded ==
    /\ prev /= <<>>
    /\ \A t \in 0..(Len(prev[1].sections) - 1) :
          \E i \in DOMAIN prev[1].synth_log : prev[1].synth_log[i].section = t
    /\ \A i \in DOMAIN prev[1].synth_log : prev[1].synth_log[i].ok
    /\ \A m \in DOMAIN prev[1].merged : prev[1].merged[m].ok

\* no file of the output folder has been written or removed in this run
NoOutputChange == \A i \in DOMAIN io_log : io_log[i].op \notin {"write", "remove"}

\* the section loop is at a section whose output file exists
AtExistingOutput ==
    /\ mode = "main" /\ pc = "section"
    /\ section_idx < Len(sections)
    /\ OutputFile \in fs

\* C16: a section whose output file exists when the section is reached
\* causes no synthesis call and no change of a file, and so a run that
\* follows a run in which every section was synthesized and merged
\* successfully makes no synthesis call and changes no output file.
C16_SkipExistingIdempotent ==
    /\ [][AtExistingOutput =>
             /\ synth_log' = synth_log /\ in_flight' = in_flight
             /\ fs' = fs /\ io_log' = io_log
             /\ section_idx' = section_idx + 1]_vars
    /\ []((mode = "main" /\ run > 1 /\ PreviousRunSucceeded) =>
             (synth_log = <<>> /\ in_flight = {} /\ NoOutputChange))

\* the entries of synth_log for section t, in the order of the calls
CallsOf(t) == SelectSeq(synth_log, LAMBDA e : e.section = t)

\* C17: synthesis is sequential and ordered. At most one call is in flight;
\* a call is issued only after every call before it returned True; the calls
\* of a section are for its chunks 0, 1, 2, ... in this order and come after
\* all calls of the sections before it; the files handed to the merge are the
\* files of the section's calls in chunk order.
C17_SynthesisSequential ==
    mode = "main" =>
        /\ Cardinality(in_flight) <= 1
        /\ \A c \in in_flight :
              /\ c = CurrentCall
              /\ \A i \in DOMAIN synth_log : synth_log[i].ok
              /\ Len(CallsOf(c.section)) = c.chunk
        /\ synth_log /= <<>> => synth_log[1].chunk = 0
        /\ \A i \in 1..(Len(synth_log) - 1) :
              \/ /\ synth_log[i + 1].section > synth_log[i].section
                 /\ synth_log[i + 1].chunk = 0
              \/ /\ synth_log[i + 1].section = synth_log[i].section
                 /\ synth_log[i + 1].chunk = synth_log[i].chunk + 1
                 /\ synth_log[i].ok
        /\ \A m \in DOMAIN merged :
              LET calls == CallsOf(merged[m].section)
              IN  /\ \A j \in DOMAIN calls : calls[j].chunk = j - 1
                  /\ merged[m].files = [j \in DOMAIN calls |-> calls[j].file]

\* C17 witness: the call for the second chunk of the second section is in
\* flight after the first section's three chunks were merged.
C17_Witness ==
    /\ mode = "main" /\ pc = "synth"
    /\ in_flight = {[section |-> 1, chunk |-> 1]}
    /\ Len(merged) = 1 /\ merged[1].section = 0 /\ Len(merged[1].files) = 3

RECURSIVE SumMs(_)
SumMs(ms) == IF ms = <<>> THEN 0 ELSE Head(ms) + SumMs(Tail(ms))

\* the length of an audio in ms
TotalMs(audio) == SumMs([i \in DOMAIN audio |-> audio[i].ms])

\* the files an audio was made of, in the order they are heard
FilesHeard(audio) ==
    LET spoken == SelectSeq(audio, LAMBDA piece : ~piece.silent)
    IN  [i \in DOMAIN spoken |-> spoken[i].file]

-----------------------------------------------------------------------------
(* Claims about create_m4b and clean_title *)

RECURSIVE SumDurations(_)
SumDurations(ps) ==
    IF ps = <<>> THEN 0 ELSE Head(ps).duration + SumDurations(Tail(ps))

\* the chapter list is complete: the file loop of create_m4b has ended
ChaptersBuilt ==
    mode = "m4b" /\ pc \in {"metadata", "encode", "returned"} /\ input_files /= <<>>

\* C3: the first chapter starts at 0, the last chapter ends at the sum of all
\* probed durations, and every chapter ends where the next one starts.
C3_ChaptersContiguous ==
    ChaptersBuilt =>
        /\ chapters /= <<>>
        /\ chapters[1].start = 0
        /\ chapters[Len(chapters)].end = SumDurations(probed)
        /\ \A i \in 1..(Len(chapters) - 1) : chapters[i].end = chapters[i + 1].start

\* C3 witness: three files with non-zero durations have been assembled.
C3_Witness ==
    /\ ChaptersBuilt /\ pc = "returned"
    /\ Len(chapters) = 3
    /\ \A i \in DOMAIN probed : probed[i].duration > 0
    /\ chapters[3].start > chapters[2].start

\* the separators of the ordinal prefix: '_', '-' and space, a space being
\* any whitespace character
Separators == Whitespace \cup {"_", "-"}

\* the chapter title, character by character: the name up to its
\* extension, without a leading run of digits that is followed by a run of
\* separators, '_' and '-' read as spaces, each letter upper-cased at the
\* start of a word and lower-cased inside one
ExpectedTitle(name) ==
    LET dots == {i \in 2..(Len(name) - 1) : name[i] = "."}
        stemLen == IF dots = {} THEN Len(name)
                   ELSE (CHOOSE i \in dots : \A j \in dots : j <= i) - 1
        nDigits == CHOOSE k \in 0..stemLen :
                      /\ \A j \in 1..k : name[j] \in Digits
                      /\ (k < stemLen => name[k + 1] \notin Digits)
        nSeps == CHOOSE k \in 0..(stemLen - nDigits) :
                      /\ \A j \in 1..k : name[nDigits + j] \in Separators
                      /\ (nDigits + k < stemLen => name[nDigits + k + 1] \notin Separators)
        skip == IF nDigits >= 1 /\ nSeps >= 1 THEN nDigits + nSeps ELSE 0
    IN  [i \in 1..(stemLen - skip) |->
            LET c == name[skip + i]
            IN  IF c \in {"_", "-"} THEN " "
                ELSE IF i > 1 /\ IsCased(name[skip + i - 1]) THEN ToLower(c)
                ELSE ToUpper(c)]

\* the files 01_Intro.mp3, 02_The_Journey.mp3, 03_End.mp3 probed as 60.0,
\* 120.5 and 30.0 seconds
ScenarioAssembled ==
    /\ ChaptersBuilt
    /\ input_files = <<FileNames[1], FileNames[2], FileNames[3]>>
    /\ probed = <<[ok |-> TRUE, duration |-> 240000], [ok |-> TRUE, duration |-> 482000],
                  [ok |-> TRUE, duration |-> 120000]>>

ScenarioChapters ==
    <<[title |-> <<"I", "n", "t", "r", "o">>, start |-> 0, end |-> 240000],
      [title |-> <<"T", "h", "e", " ", "J", "o", "u", "r", "n", "e", "y">>,
       start |-> 240000, end |-> 722000],
      [title |-> <<"E", "n", "d">>, start |-> 722000, end |-> 842000]>>

\* C10: every chapter is titled by its file name without the extension and
\* without a leading digits-and-separators prefix, with '_' and '-' replaced
\* by spaces and the words title-cased; 01_Intro.mp3, 02_The_Journey.mp3,
\* 03_End.mp3 with durations 60.0, 120.5, 30.0 give (Intro, 0, 60),
\* (The Journey, 60, 180.5), (End, 180.5, 210.5).
C10_ChapterTitles ==
    mode = "m4b" =>
        /\ \A i \in DOMAIN chapters : chapters[i].title = ExpectedTitle(input_files[i])
        /\ ScenarioAssembled => chapters = ScenarioChapters

\* C10 witness: the three files of the scenario have been assembled into the
\* chapters of the scenario.
C10_Witness ==
    ScenarioAssembled /\ pc = "returned" /\ chapters = ScenarioChapters

\* C12: when create_m4b has ended, by returning or by an exception, neither
\* concat_list.txt nor metadata.txt is left on disk.
C12_NoTemporaryFileLeft ==
    (mode = "m4b" /\ pc = "returned") => tmp_files = {}

\* the sum of the durations of the probes that succeeded
RECURSIVE SumProbed(_)
SumProbed(ps) ==
    IF ps = <<>> THEN 0
    ELSE (IF Head(ps).ok THEN Head(ps).duration ELSE 0) + SumProbed(Tail(ps))

\* C13: a failed probe is not fatal. It counts as duration 0 and an error is
\* printed for its file, the failed file gets a chapter with start = end, every
\* chapter starts at the sum of the durations probed successfully before it,
\* and the loop goes on to give every input file its chapter.
C13_FailedProbeNonFatal ==
    mode = "m4b" =>
        /\ \A i \in DOMAIN probed :
              ~probed[i].ok =>
                  /\ probed[i].duration = 0
                  /\ input_files[i] \in Range(probe_errors)
                  /\ chapters[i].start = chapters[i].end
        /\ \A i \in DOMAIN chapters :
              chapters[i].start = SumProbed(SubSeq(probed, 1, i - 1))
        /\ ChaptersBuilt => Len(chapters) = Len(input_files)

\* C13 witness: the probe of the second of three files failed, the third file
\* was probed with a duration, and create_m4b returned True.
C13_Witness ==
    /\ mode = "m4b" /\ pc = "returned" /\ m4b_result = "true"
    /\ Len(chapters) = 3
    /\ probed[1].duration > 0 /\ ~probed[2].ok /\ probed[3].duration > 0
    /\ chapters[3].start = probed[1].duration

\* C14: every chapter has start <= end, and start = end exactly when the
\* duration of its file is 0.
C14_ChapterBoundsOrdered ==
    mode = "m4b" =>
        \A i \in DOMAIN chapters :
            /\ chapters[i].start <= chapters[i].end
            /\ (chapters[i].start = chapters[i].end) <=> (probed[i].duration = 0)

\* C14 witness: a file probed successfully as 0 seconds long lies between two
\* files with a duration.
C14_Witness ==
    /\ mode = "m4b" /\ pc = "returned"
    /\ Len(chapters) = 3
    /\ probed[1].duration > 0 /\ probed[3].duration > 0
    /\ probed[2].ok /\ probed[2].duration = 0
    /\ chapters[2].start = chapters[2].end /\ chapters[2].start > 0

\* generate_ffmpeg_metadata has returned (line 122)
MetadataGenerated == mode = "m4b" /\ pc = "metadata"

\* the positions of the [CHAPTER] lines among the lines ls
BlockStarts(ls) == {i \in DOMAIN ls : ls[i] = <<"[", "C", "H", "A", "P", "T", "E", "R", "]">>}

\* the k-th smallest of the positions
NthOf(positions, k) ==
    CHOOSE i \in positions : Cardinality({j \in positions : j <= i}) = k

\* the number written in decimal digits
RECURSIVE ParseNat(_)
ParseNat(digits) ==
    IF digits = <<>> THEN 0
    ELSE 10 * ParseNat(SubSeq(digits, 1, Len(digits) - 1))
         + (CHOOSE d \in 0..9 :
               <<"0", "1", "2", "3", "4", "5", "6", "7", "8", "9">>[d + 1]
                   = digits[Len(digits)])

\* line is key followed by an integer in decimal digits
IsIntegerLine(line, key) ==
    /\ StartsWith(line, key)
    /\ Len(line) > Len(key)
    /\ \A j \in (Len(key) + 1)..Len(line) : line[j] \in Digits

\* the integer of such a line
IntegerOf(line, key) == ParseNat(SubSeq(line, Len(key) + 1, Len(line)))

\* ms is seconds times 1000 truncated to an integer
IsTruncatedMs(ms, seconds) ==
    /\ ms * TicksPerSecond <= seconds * 1000
    /\ seconds * 1000 < (ms + 1) * TicksPerSecond

\* START and END of the block whose [CHAPTER] line is line b of ls
BlockStartMs(ls, b) == IntegerOf(ls[b + 2], <<"S", "T", "A", "R", "T", "=">>)
BlockEndMs(ls, b) == IntegerOf(ls[b + 3], <<"E", "N", "D", "=">>)

\* C22: the generated metadata has one [CHAPTER] block per chapter, in chapter
\* order, each with the line TIMEBASE=1/1000 and with integer START and END
\* that are the chapter's start and end in seconds times 1000, truncated; in
\* every block START <= END, and END of a block is START of the next one.
C22_MetadataBlocks ==
    MetadataGenerated =>
        LET ls == LinesOf(metadata_content)
            starts == BlockStarts(ls)
        IN  /\ Cardinality(starts) = Len(chapters)
            /\ \A k \in DOMAIN chapters :
                  LET b == NthOf(starts, k)
                  IN  /\ b + 4 <= Len(ls)
                      /\ ls[b + 1] = <<"T", "I", "M", "E", "B", "A", "S", "E", "=", "1", "/", "1", "0", "0", "0">>
                      /\ IsIntegerLine(ls[b + 2], <<"S", "T", "A", "R", "T", "=">>)
                      /\ IsIntegerLine(ls[b + 3], <<"E", "N", "D", "=">>)
                      /\ ls[b + 4] = <<"t", "i", "t", "l", "e", "=">> \o chapters[k].title
                      /\ IsTruncatedMs(BlockStartMs(ls, b), chapters[k].start)
                      /\ IsTruncatedMs(BlockEndMs(ls, b), chapters[k].end)
                      /\ BlockStartMs(ls, b) <= BlockEndMs(ls, b)
                      /\ k < Len(chapters) =>
                            BlockEndMs(ls, b) = BlockStartMs(ls, NthOf(starts, k + 1))

\* C22 witness: create_m4b has generated the metadata of three
\* chapters of positive length, one boundary of which is no whole number of
\* milliseconds.
C22_Witness ==
    /\ MetadataGenerated
    /\ Len(chapters) = 3
    /\ LET ls == LinesOf(metadata_content)
           starts == BlockStarts(ls)
       IN  /\ Cardinality(starts) = 3
           /\ \A k \in 1..3 :
                 BlockStartMs(ls, NthOf(starts, k)) < BlockEndMs(ls, NthOf(starts, k))
           /\ BlockEndMs(ls, NthOf(starts, 1)) = BlockStartMs(ls, NthOf(starts, 2))
           /\ BlockEndMs(ls, NthOf(starts, 1)) * TicksPerSecond < chapters[1].end * 1000

\* line is the concat-list entry of file_path: file '...' with the path
\* between the quotes, each single quote of the path written as '\''
IsConcatEntry(line, file_path) ==
    /\ StartsWith(line, <<"f", "i", "l", "e", " ", "'">>)
    /\ Len(line) >= 7 /\ line[Len(line)] = "'"
    /\ Replace(SubSeq(line, 7, Len(line) - 1), <<"'", "\\", "'", "'">>, <<"'">>)
           = file_path

\* the concat list and the metadata are written and ffmpeg is about to run
\* (line 157)
HandedToEncoder == mode = "m4b" /\ pc = "encode"

\* C23: chapters correspond positionally to the audio handed to the encoder.
\* When ffmpeg is about to run there is exactly one chapter and exactly one
\* concat-list line per input file, both in the order of the input list, and
\* chapter i has the title derived from file i and the length of the probed
\* duration of file i.
C23_ChaptersMatchFiles ==
    HandedToEncoder =>
        \A cl \in {LinesOf(concat_list)} :
            /\ Len(chapters) = Len(input_files)
            /\ Len(cl) = Len(input_files) + 1 /\ cl[Len(cl)] = <<>>
            /\ \A i \in DOMAIN input_files :
                  /\ IsConcatEntry(cl[i], input_files[i])
                  /\ chapters[i].title = clean_title(input_files[i])
                  /\ chapters[i].end - chapters[i].start = probed[i].duration

\* C23 witness: create_m4b has returned True for three files, one with a
\* single quote in its name, whose probed durations all differ.
C23_Witness ==
    /\ ChaptersBuilt /\ pc = "returned" /\ m4b_result = "true"
    /\ Len(input_files) = 3 /\ Len(chapters) = 3
    /\ "'" \in Range(input_files[3])
    /\ \A i, j \in 1..3 : i /= j => probed[i].duration /= probed[j].duration
    /\ \A i \in 1..3 : probed[i].duration > 0
    /\ \A i \in 1..3 : IsConcatEntry(LinesOf(concat_list)[i], input_files[i])

-----------------------------------------------------------------------------
(* Claims about 2_write_book_using_ai *)

\* the response of call i was appended, under the header of its file name
Appended(i) == ai_calls[i].output_after /= ai_calls[i].output_before

\* the calls whose response was appended under the header of file_name
AppendedFor(file_name) ==
    {i \in DOMAIN ai_calls : ai_calls[i].file_name = file_name /\ Appended(i)}

\* when call i was sent, the output held the header of its file name, written
\* with the response of an earlier call
HeaderInOutput(i) ==
    \E j \in 1..(i - 1) : ai_calls[j].file_name = ai_calls[i].file_name /\ Appended(j)

\* C24: over the runs on one output file, a response is appended for a file
\* name at most once; a file whose header "# file_name" is in the output is
\* never sent to the AI again; and nothing is appended for a file whose API
\* call fails.
C24_AppendedAtMostOnce ==
    mode = "book" =>
        \A i \in DOMAIN ai_calls :
            /\ Cardinality(AppendedFor(ai_calls[i].file_name)) <= 1
            /\ ~HeaderInOutput(i)
            /\ ai_calls[i].result = "failed" => ~Appended(i)

-----------------------------------------------------------------------------
(* The programs together *)

Init == InitChunks \/ InitChunksNonPositive \/ InitSplit \/ InitM4b \/ InitMain \/ InitBook

Next == NextChunks \/ NextSplit \/ NextM4b \/ NextMain \/ NextBook

Spec == Init /\ [][Next]_vars

=============================================================================
